---- MODULE Spec2Model ----
(***************************************************************************)
(* Model of the index log (classes.py, class Log) and of the parallel map  *)
(* (functions.py, run_in_parallel).                                        *)
(*                                                                         *)
(* A path is the sequence of its components: "out/train.jsonl" is          *)
(* <<"out", "train.jsonl">>, "train.jsonl" is <<"train.jsonl">>, and the   *)
(* empty string is <<>>.  A sidecar file is a sequence of lines; a line is *)
(* the JSON text of one entry, kept as the pair of its filename and the    *)
(* decimal digits of its idx.                                              *)
(***************************************************************************)
EXTENDS Integers, Sequences, FiniteSets, TLC

\* ------------------------------------------------------------------ bounds
MaxObjs == 2
MaxIdx == 2
MaxLines == 2

Objs == 1..MaxObjs
Idxs == {55 * i : i \in 0..MaxIdx}
Basenames == {"train.jsonl", "dev.jsonl"}
OutputPaths == {<<b>> : b \in Basenames} \cup {<<"out", b>> : b \in Basenames}

VARIABLES
    dirs,       \* the directories that exist (the working directory aside)
    exists,     \* the paths of the sidecar files that exist
    content,    \* content[p]: the lines of the sidecar file at path p
    log_path,   \* log_path[o]: self.log_path of Log object o
    last_idx,   \* last_idx[o]: self.last_idx
    logs,       \* logs[o]: self.logs, <<>> while slot o holds no object
    outdir,     \* the directory the batch job writes its outputs to
    lastWrite,  \* history: the most recent update/set_zero call
    since,      \* history: what object o is to the most recent write
    touched     \* history: the sidecar paths update/set_zero have opened

logVars == <<dirs, exists, content, log_path, last_idx, logs, outdir,
             lastWrite, since, touched>>

\* ----------------------------------------------- run_in_parallel: bounds
MaxArity == 2
MaxLen == 2
MaxWorkers == 2

Vals == {1, 2}

VARIABLES
    co_argcount,  \* func.__code__.co_argcount
    args,         \* the positional arguments of the call
    n,            \* max_workers
    raises,       \* the invocations of func (by index) that raise
    pc,           \* where the calling thread is
    new_args,     \* the broadcast argument lists
    futures,      \* futures[i]: the state of the future of invocation i
    results,      \* the results the caller has taken from the iterator
    error,        \* the exception the call ends with, "none" if none
    calls,        \* how many times func has been invoked
    finished,     \* history: the invocations in the order they completed
    late          \* history: the invocations that completed after the failure

parVars == <<co_argcount, args, n, raises, pc, new_args, futures, results,
             error, calls, finished, late>>

\* ------------------------------------------- Log, step by step: variables
VARIABLES
    rd,         \* rd[o]: the basename __init__ of o is reading for, "" if none
    wr,         \* wr[o]: o is inside the with block of update or set_zero
    pos,        \* pos[o]: how many lines o has read or written since open
    overlap     \* history: "yes" when a rewrite by another object ran during
                \* the read of o's construction, "zero" when that construction
                \* ended with last_idx = 0 under a rewrite by an object that
                \* had read a non-zero idx for o's filename, "no" otherwise

raceVars == <<rd, wr, pos, overlap>>

\* ------------------------------------------------------- retry: bounds
MaxRetries == 3
MaxDelay == 2

VARIABLES
    retries,    \* the retries argument of the decorator
    delay,      \* the delay argument of the decorator
    failing,    \* the attempts (by number) at which func raises
    rpc,        \* where the decorator or the wrapper is
    attempt,    \* i, the loop variable of wrapper
    invoked,    \* how many times func has been invoked
    slept,      \* how many times wrapper has slept
    waited,     \* the seconds wrapper has slept in all
    ret         \* what wrapper returned

retryVars == <<retries, delay, failing, rpc, attempt, invoked, slept, waited, ret>>

vars == <<logVars, parVars, raceVars, retryVars>>

\* ------------------------------------------------------------ path helpers
Dirname(p) == SubSeq(p, 1, Len(p) - 1)
Basename(p) == p[Len(p)]
Join(dirname, name) == dirname \o <<name>>
LogPaths == {Join(Dirname(p), "idx.log") : p \in OutputPaths}

\* ------------------------------------------------------------- JSON lines
RECURSIVE IntToDigits(_)
IntToDigits(v) ==
    IF v < 10 THEN <<v>> ELSE IntToDigits(v \div 10) \o <<v % 10>>

RECURSIVE DigitsToInt(_)
DigitsToInt(ds) ==
    IF ds = <<>> THEN 0
    ELSE 10 * DigitsToInt(SubSeq(ds, 1, Len(ds) - 1)) + ds[Len(ds)]

Dumps(js) == [filename |-> js.filename, idx |-> IntToDigits(js.idx)]
Loads(line) == [filename |-> line.filename, idx |-> DigitsToInt(line.idx)]

\* ------------------------------------------------------------ Log.__init__
\* The read loop of __init__: st is the pair of self.last_idx and self.logs.
ReadLoopKeepAll(lines, basename, st) ==
    LET step[k \in 0..Len(lines)] ==
            IF k = 0 THEN st
            ELSE LET js == Loads(lines[k])
                     prev == step[k - 1]
                 IN IF js.filename = basename
                    THEN [last_idx |-> js.idx, logs |-> Append(prev.logs, js)]
                    ELSE [last_idx |-> prev.last_idx, logs |-> Append(prev.logs, js)]
    IN step[Len(lines)]

ReadLoop(lines, basename, st) ==
    LET step[k \in 0..Len(lines)] ==
            IF k = 0 THEN st
            ELSE LET js == Loads(lines[k])
                     prev == step[k - 1]
                 IN IF js.filename = basename
                    THEN [last_idx |-> js.idx, logs |-> prev.logs]
                    ELSE [last_idx |-> prev.last_idx, logs |-> Append(prev.logs, js)]
    IN step[Len(lines)]

Constructed(o) == logs[o] # <<>>
Target(o) == logs[o][Len(logs[o])].filename

ConstructCreatesFile(o, output_path) ==
    LET dirname == Dirname(output_path)
        basename == Basename(output_path)
        lp == Join(dirname, "idx.log")
        st == ReadLoop(IF lp \in exists THEN content[lp] ELSE <<>>, basename,
                       [last_idx |-> 0, logs |-> <<>>])
        entry == [filename |-> basename, idx |-> st.last_idx]
    IN /\ dirs' = IF dirname # <<>> /\ dirname \notin dirs
                  THEN dirs \cup {dirname} ELSE dirs
       /\ log_path' = [log_path EXCEPT ![o] = lp]
       /\ last_idx' = [last_idx EXCEPT ![o] = st.last_idx]
       /\ logs' = [logs EXCEPT ![o] = Append(st.logs, entry)]
       /\ since' = [since EXCEPT ![o] = "fresh"]
       /\ exists' = exists \cup {lp}
       /\ content' = [content EXCEPT ![lp] = Append(st.logs, Dumps(entry))]
       /\ UNCHANGED <<outdir, lastWrite, touched>>

Construct(o, output_path) ==
    LET dirname == Dirname(output_path)
        basename == Basename(output_path)
        lp == Join(dirname, "idx.log")
        st == ReadLoop(IF lp \in exists THEN content[lp] ELSE <<>>, basename,
                       [last_idx |-> 0, logs |-> <<>>])
        entry == [filename |-> basename, idx |-> st.last_idx]
    IN /\ dirs' = IF dirname # <<>> /\ dirname \notin dirs
                  THEN dirs \cup {dirname} ELSE dirs
       /\ log_path' = [log_path EXCEPT ![o] = lp]
       /\ last_idx' = [last_idx EXCEPT ![o] = st.last_idx]
       /\ logs' = [logs EXCEPT ![o] = Append(st.logs, entry)]
       /\ since' = [since EXCEPT ![o] = "fresh"]
       /\ UNCHANGED <<exists, content, outdir, lastWrite, touched>>

\* -------------------------------------------------------------- Log.update
\* The rewrite of the sidecar: open(..., 'w') and one line per entry.
RewriteTailOnly(p, entries) ==
    /\ exists' = exists \cup {p}
    /\ content' = [content EXCEPT ![p] = <<Dumps(entries[Len(entries)])>>]
    /\ touched' = touched \cup {p}

Rewrite(p, entries) ==
    /\ exists' = exists \cup {p}
    /\ content' = [content EXCEPT ![p] = [k \in 1..Len(entries) |-> Dumps(entries[k])]]
    /\ touched' = touched \cup {p}

Written(o, kind, idx) ==
    /\ lastWrite' = [kind |-> kind, log_path |-> log_path[o],
                     filename |-> Target(o), idx |-> idx]
    /\ since' = [x \in Objs |-> IF x = o THEN "writer" ELSE "none"]

UpdateWritesStale(o, idx) ==
    /\ Constructed(o)
    /\ Rewrite(log_path[o], logs[o])
    /\ logs' = [logs EXCEPT ![o][Len(logs[o])].idx = idx]
    /\ last_idx' = [last_idx EXCEPT ![o] = idx]
    /\ Written(o, "update", idx)
    /\ UNCHANGED <<dirs, log_path, outdir>>

\* What update(idx) does to the object and the sidecar.
UpdateBody(o, idx) ==
    /\ Constructed(o)
    /\ logs' = [logs EXCEPT ![o][Len(logs[o])].idx = idx]
    /\ Rewrite(log_path[o], logs'[o])
    /\ last_idx' = [last_idx EXCEPT ![o] = idx]
    /\ UNCHANGED <<dirs, log_path, outdir>>

Update(o, idx) == UpdateBody(o, idx) /\ Written(o, "update", idx)

\* ------------------------------------------------------------ Log.set_zero
SetZeroKeepsIdx(o) ==
    /\ Constructed(o)
    /\ last_idx' = [last_idx EXCEPT ![o] = 0]
    /\ logs' = logs
    /\ Rewrite(log_path[o], logs'[o])
    /\ Written(o, "set_zero", 0)
    /\ UNCHANGED <<dirs, log_path, outdir>>

\* What set_zero() does to the object and the sidecar.
SetZeroBodyKeepsLastIdx(o) ==
    /\ Constructed(o)
    /\ last_idx' = last_idx
    /\ logs' = [logs EXCEPT ![o][Len(logs[o])].idx = 0]
    /\ Rewrite(log_path[o], logs'[o])
    /\ UNCHANGED <<dirs, log_path, outdir>>

SetZeroBody(o) ==
    /\ Constructed(o)
    /\ last_idx' = [last_idx EXCEPT ![o] = 0]
    /\ logs' = [logs EXCEPT ![o][Len(logs[o])].idx = 0]
    /\ Rewrite(log_path[o], logs'[o])
    /\ UNCHANGED <<dirs, log_path, outdir>>

SetZero(o) == SetZeroBody(o) /\ Written(o, "set_zero", 0)

\* The state before any Log is constructed.
NoWrite == [kind |-> "none", log_path |-> <<>>, filename |-> "", idx |-> 0]

LogInit ==
    /\ outdir \in {Dirname(p) : p \in OutputPaths}
    /\ dirs = {}
    /\ exists = {}
    /\ content = [p \in LogPaths |-> <<>>]
    /\ log_path = [o \in Objs |-> <<>>]
    /\ last_idx = [o \in Objs |-> 0]
    /\ logs = [o \in Objs |-> <<>>]
    /\ lastWrite = NoWrite
    /\ since = [o \in Objs |-> "none"]
    /\ touched = {}

\* No construction and no rewrite is under way.
RaceInit ==
    /\ rd = [o \in Objs |-> ""]
    /\ wr = [o \in Objs |-> FALSE]
    /\ pos = [o \in Objs |-> 0]
    /\ overlap = [o \in Objs |-> "no"]

\* ------------------------------------------------------ Log, step by step
\* The same three methods with the opening of the sidecar, every line read
\* and every line written as steps of their own, so that the calls of two
\* objects interleave.

\* What a write past the end of a truncated file leaves before it.
Hole == [filename |-> "", idx |-> <<>>]

\* The file after a line is written at line offset k - 1.
WriteAt(lines, k, line) ==
    IF k <= Len(lines) THEN [lines EXCEPT ![k] = line]
    ELSE lines \o [j \in 1..(k - 1 - Len(lines)) |-> Hole] \o <<line>>

\* The two objects whose calls interleave, and the idx values they pass.
Actors == 1..2
RaceIdxs == {0, 55 * MaxIdx}

Idle(o) == rd[o] = "" /\ ~wr[o]

\* Some object is rewriting the file at p.
Writing(p) == \E x \in Objs : wr[x] /\ log_path[x] = p

\* Some object rewriting the file at p read a non-zero idx for basename from
\* it at its construction.
WritingOver(p, basename) ==
    \E x \in Objs :
        /\ wr[x]
        /\ log_path[x] = p
        /\ \E k \in 1..(Len(logs[x]) - 1) :
              logs[x][k].filename = basename /\ logs[x][k].idx > 0

\* One pass of the loop body of __init__ on the parsed line js.
ReadStepKeepAll(st, js, basename) ==
    IF js.filename = basename
    THEN [last_idx |-> js.idx, logs |-> Append(st.logs, js)]
    ELSE [last_idx |-> st.last_idx, logs |-> Append(st.logs, js)]

ReadStep(st, js, basename) ==
    IF js.filename = basename
    THEN [last_idx |-> js.idx, logs |-> st.logs]
    ELSE [last_idx |-> st.last_idx, logs |-> Append(st.logs, js)]

\* __init__ up to the opening of the sidecar; all of it when there is none.
OpenRead(o, output_path) ==
    LET dirname == Dirname(output_path)
        basename == Basename(output_path)
        lp == Join(dirname, "idx.log")
    IN /\ Idle(o)
       /\ dirs' = IF dirname # <<>> /\ dirname \notin dirs
                  THEN dirs \cup {dirname} ELSE dirs
       /\ log_path' = [log_path EXCEPT ![o] = lp]
       /\ last_idx' = [last_idx EXCEPT ![o] = 0]
       /\ IF lp \in exists
          THEN /\ logs' = [logs EXCEPT ![o] = <<>>]
               /\ rd' = [rd EXCEPT ![o] = basename]
               /\ overlap' = [overlap EXCEPT ![o] = IF Writing(lp) THEN "yes" ELSE "no"]
          ELSE /\ logs' = [logs EXCEPT ![o] = <<[filename |-> basename, idx |-> 0]>>]
               /\ rd' = rd
               /\ overlap' = [overlap EXCEPT ![o] = "no"]
       /\ pos' = [pos EXCEPT ![o] = 0]
       /\ UNCHANGED <<exists, content, outdir, lastWrite, since, touched, wr>>

\* The next line of the sidecar, or at its end the append of the tail entry.
\* A line that is no JSON text makes json.loads raise: no object results.
ReadLine(o) ==
    LET lines == content[log_path[o]]
        st == [last_idx |-> last_idx[o], logs |-> logs[o]]
        ov == overlap[o] = "yes" \/ Writing(log_path[o])
    IN /\ rd[o] # ""
       /\ IF pos[o] < Len(lines)
          THEN IF lines[pos[o] + 1] = Hole
               THEN /\ logs' = [logs EXCEPT ![o] = <<>>]
                    /\ last_idx' = [last_idx EXCEPT ![o] = 0]
                    /\ rd' = [rd EXCEPT ![o] = ""]
                    /\ pos' = [pos EXCEPT ![o] = 0]
                    /\ overlap' = [overlap EXCEPT ![o] = "no"]
               ELSE LET nx == ReadStep(st, Loads(lines[pos[o] + 1]), rd[o])
                    IN /\ Len(nx.logs) < MaxLines
                       /\ logs' = [logs EXCEPT ![o] = nx.logs]
                       /\ last_idx' = [last_idx EXCEPT ![o] = nx.last_idx]
                       /\ pos' = [pos EXCEPT ![o] = pos[o] + 1]
                       /\ overlap' = [overlap EXCEPT ![o] = IF ov THEN "yes" ELSE "no"]
                       /\ rd' = rd
          ELSE /\ logs' = [logs EXCEPT ![o] =
                              Append(logs[o], [filename |-> rd[o], idx |-> last_idx[o]])]
               /\ rd' = [rd EXCEPT ![o] = ""]
               /\ pos' = [pos EXCEPT ![o] = 0]
               /\ overlap' = [overlap EXCEPT ![o] =
                                 IF ~ov THEN "no"
                                 ELSE IF last_idx[o] = 0
                                         /\ WritingOver(log_path[o], rd[o])
                                      THEN "zero" ELSE "yes"]
               /\ UNCHANGED last_idx
       /\ UNCHANGED <<dirs, exists, content, log_path, outdir, lastWrite, since,
                      touched, wr>>

\* open(self.log_path, 'w'): the sidecar is truncated; the tail idx is set.
Truncate(o, idx) ==
    /\ Idle(o)
    /\ logs[o] # <<>>
    /\ exists' = exists \cup {log_path[o]}
    /\ content' = [content EXCEPT ![log_path[o]] = <<>>]
    /\ logs' = [logs EXCEPT ![o][Len(logs[o])].idx = idx]
    /\ wr' = [wr EXCEPT ![o] = TRUE]
    /\ pos' = [pos EXCEPT ![o] = 0]
    /\ overlap' = [x \in Objs |->
                      IF rd[x] # "" /\ log_path[x] = log_path[o]
                      THEN "yes" ELSE overlap[x]]
    /\ UNCHANGED <<dirs, log_path, outdir, lastWrite, since, touched, rd>>

\* update(idx) up to the first write.
OpenUpdate(o, idx) ==
    /\ Truncate(o, idx)
    /\ UNCHANGED last_idx

\* set_zero() up to the first write.
OpenSetZero(o) ==
    /\ Truncate(o, 0)
    /\ last_idx' = [last_idx EXCEPT ![o] = 0]

\* f_a.write of the next entry, at the offset this object's file is at.
WriteLine(o) ==
    /\ wr[o]
    /\ pos[o] < Len(logs[o])
    /\ content' = [content EXCEPT ![log_path[o]] =
                      WriteAt(content[log_path[o]], pos[o] + 1,
                              Dumps(logs[o][pos[o] + 1]))]
    /\ pos' = [pos EXCEPT ![o] = pos[o] + 1]
    /\ UNCHANGED <<dirs, exists, log_path, last_idx, logs, outdir, lastWrite,
                   since, touched, rd, wr, overlap>>

\* The with block ends; update then sets self.last_idx.
CloseWrite(o) ==
    /\ wr[o]
    /\ pos[o] = Len(logs[o])
    /\ wr' = [wr EXCEPT ![o] = FALSE]
    /\ pos' = [pos EXCEPT ![o] = 0]
    /\ last_idx' = [last_idx EXCEPT ![o] = logs[o][Len(logs[o])].idx]
    /\ UNCHANGED <<dirs, exists, content, log_path, logs, outdir, lastWrite,
                   since, touched, rd, overlap>>

\* ---------------------------------------------------------- run_in_parallel
\* An argument is a list (its items) or anything else (items holds it alone).
ListArg(items) == [islist |-> TRUE, items |-> items]
ScalarArg(v) == [islist |-> FALSE, items |-> <<v>>]

SeqsUpTo(S, k) == UNION {[1..m -> S] : m \in 0..k}
ArgValues ==
    {ListArg(xs) : xs \in SeqsUpTo(Vals, MaxLen)} \cup {ScalarArg(v) : v \in Vals}

\* func adds its arguments up (the add of the docstring, at any arity).
RECURSIVE F(_)
F(xs) == IF xs = <<>> THEN 0 ELSE F(SubSeq(xs, 1, Len(xs) - 1)) + xs[Len(xs)]

\* list_arg_lens: the lengths of the list arguments, in argument order.
ListArgLens(a) ==
    LET ls == SelectSeq(a, LAMBDA x : x.islist)
    IN [k \in 1..Len(ls) |-> Len(ls[k].items)]

\* all(l == list_arg_lens[0] for l in list_arg_lens)
LensAgreeAny(lens) == \E k \in 1..Len(lens) : lens[k] = lens[1]

LensAgree(lens) == \A k \in 1..Len(lens) : lens[k] = lens[1]

\* list_arg_lens[0]: an IndexError (ok = FALSE) on the empty list.
Index0Default(lens) ==
    IF lens = <<>> THEN [ok |-> TRUE, val |-> 1] ELSE [ok |-> TRUE, val |-> lens[1]]

Index0(lens) ==
    IF lens = <<>> THEN [ok |-> FALSE, val |-> 0] ELSE [ok |-> TRUE, val |-> lens[1]]

\* new_args: lists as they are, anything else repeated l0 times.
NewArgsNoRepeat(a, l0) ==
    [k \in 1..Len(a) |-> a[k].items]

NewArgs(a, l0) ==
    [k \in 1..Len(a) |->
        IF a[k].islist THEN a[k].items ELSE [j \in 1..l0 |-> a[k].items[1]]]

\* zip(*iterables) inside executor.map stops at the shortest iterable.
ZipLen(iterables) ==
    IF iterables = <<>> THEN 0
    ELSE LET lens == {Len(iterables[k]) : k \in 1..Len(iterables)}
         IN CHOOSE m \in lens : \A l \in lens : m <= l

TaskArgs(i) == [k \in 1..Len(new_args) |-> new_args[k][i]]

Running == {i \in 1..Len(futures) : futures[i] = "running"}

Raise(e) ==
    /\ pc' = "raised"
    /\ error' = e
    /\ UNCHANGED <<new_args, futures>>

\* The call up to the submission of the futures by executor.map.
Call ==
    /\ pc = "call"
    /\ LET lens == ListArgLens(args)
           l0 == Index0(lens)
       IN IF Len(args) # co_argcount THEN Raise("ValueError")
          ELSE IF ~LensAgree(lens) THEN Raise("ValueError")
          ELSE IF ~l0.ok /\ \E k \in 1..Len(args) : ~args[k].islist
               THEN Raise("IndexError")
          ELSE LET na == NewArgs(args, l0.val)
               IN /\ new_args' = na
                  /\ futures' = [i \in 1..ZipLen(na) |-> "pending"]
                  /\ IF l0.ok
                     THEN pc' = "iterating" /\ error' = "none"
                     ELSE pc' = "exiting" /\ error' = "IndexError"
    /\ UNCHANGED <<co_argcount, args, n, raises, results, calls, finished, late>>

\* A worker thread takes the next work item off the queue and invokes func.
Start(i) ==
    /\ pc \in {"iterating", "exiting"}
    /\ futures[i] = "pending"
    /\ \A j \in 1..(i - 1) : futures[j] # "pending"
    /\ Cardinality(Running) < n
    /\ futures' = [futures EXCEPT ![i] = "running"]
    /\ calls' = calls + 1
    /\ UNCHANGED <<co_argcount, args, n, raises, pc, new_args, results, error,
                   finished, late>>

\* The invocation returns or raises; its future holds the outcome.
Finish(i) ==
    /\ futures[i] = "running"
    /\ futures' = [futures EXCEPT ![i] = IF i \in raises THEN "failed" ELSE "done"]
    /\ finished' = Append(finished, i)
    /\ late' = IF pc = "exiting" THEN late \cup {i} ELSE late
    /\ UNCHANGED <<co_argcount, args, n, raises, pc, new_args, results, error,
                   calls>>

\* list(...) takes the next result from the iterator of executor.map, which
\* waits for the futures in submission order; a failed one raises and the
\* iterator cancels the futures that are still pending.
CollectCompletionOrder ==
    /\ pc = "iterating"
    /\ \E k \in 1..Len(futures) :
          \/ /\ futures[k] = "done"
             /\ results' = Append(results, F(TaskArgs(k)))
             /\ futures' = [futures EXCEPT ![k] = "yielded"]
             /\ UNCHANGED <<pc, error>>
          \/ /\ futures[k] = "failed"
             /\ pc' = "exiting"
             /\ error' = "Exception"
             /\ futures' = [j \in 1..Len(futures) |->
                               IF futures[j] = "pending" THEN "cancelled"
                               ELSE futures[j]]
             /\ UNCHANGED results
    /\ UNCHANGED <<co_argcount, args, n, raises, new_args, calls, finished, late>>

Collect ==
    /\ pc = "iterating"
    /\ Len(results) < Len(futures)
    /\ LET k == Len(results) + 1
       IN \/ /\ futures[k] = "done"
             /\ results' = Append(results, F(TaskArgs(k)))
             /\ futures' = [futures EXCEPT ![k] = "yielded"]
             /\ UNCHANGED <<pc, error>>
          \/ /\ futures[k] = "failed"
             /\ pc' = "exiting"
             /\ error' = "Exception"
             /\ futures' = [j \in 1..Len(futures) |->
                               IF futures[j] = "pending" THEN "cancelled"
                               ELSE futures[j]]
             /\ UNCHANGED results
    /\ UNCHANGED <<co_argcount, args, n, raises, new_args, calls, finished, late>>

\* The iterator is exhausted: the with block ends and results is returned.
Return ==
    /\ pc = "iterating"
    /\ Len(results) = Len(futures)
    /\ pc' = "returned"
    /\ UNCHANGED <<co_argcount, args, n, raises, new_args, futures, results,
                   error, calls, finished, late>>

\* The exception leaves the with block once shutdown(wait=True) has seen the
\* worker threads finish.
SurfaceReturnsPartial ==
    /\ pc = "exiting"
    /\ \A i \in 1..Len(futures) : futures[i] \notin {"pending", "running"}
    /\ pc' = "returned"
    /\ UNCHANGED <<co_argcount, args, n, raises, new_args, futures, results,
                   error, calls, finished, late>>

Surface ==
    /\ pc = "exiting"
    /\ \A i \in 1..Len(futures) : futures[i] \notin {"pending", "running"}
    /\ pc' = "raised"
    /\ UNCHANGED <<co_argcount, args, n, raises, new_args, futures, results,
                   error, calls, finished, late>>

ParInit ==
    /\ co_argcount \in 0..MaxArity
    /\ args \in SeqsUpTo(ArgValues, MaxArity)
    /\ n \in 1..MaxWorkers
    /\ raises \in SUBSET (1..MaxLen)
    /\ pc = "call"
    /\ new_args = <<>>
    /\ futures = <<>>
    /\ results = <<>>
    /\ error = "none"
    /\ calls = 0
    /\ finished = <<>>
    /\ late = {}

\* No call of run_in_parallel is under way.
ParIdle ==
    /\ ParInit
    /\ co_argcount = 0
    /\ args = <<>>
    /\ n = 1
    /\ raises = {}

\* No Log has been constructed.
LogIdle == LogInit /\ outdir = <<>>

\* ------------------------------------------------------------------ retry
NoReturn == [kind |-> "none", of |-> 0]

\* retry(retries, delay): the check of the arguments.
Decorate ==
    /\ rpc = "decorate"
    /\ rpc' = IF retries < 1 \/ delay <= 0 THEN "invalid" ELSE "ready"
    /\ UNCHANGED <<retries, delay, failing, attempt, invoked, slept, waited, ret>>

\* A call of the wrapped function enters the loop with i = 1.
CallWrapper ==
    /\ rpc = "ready"
    /\ attempt' = 1
    /\ rpc' = "calling"
    /\ UNCHANGED <<retries, delay, failing, invoked, slept, waited, ret>>

\* One iteration: func is invoked; its result is returned, or its exception
\* is caught and the loop breaks (i = retries) or goes to sleep.
AttemptNoBreak ==
    /\ rpc = "calling"
    /\ attempt <= retries
    /\ invoked' = invoked + 1
    /\ IF attempt \notin failing
       THEN rpc' = "returned" /\ ret' = [kind |-> "result", of |-> attempt]
       ELSE rpc' = "sleeping" /\ ret' = ret
    /\ UNCHANGED <<retries, delay, failing, attempt, slept, waited>>

Attempt ==
    /\ rpc = "calling"
    /\ attempt <= retries
    /\ invoked' = invoked + 1
    /\ IF attempt \notin failing
       THEN rpc' = "returned" /\ ret' = [kind |-> "result", of |-> attempt]
       ELSE IF attempt = retries
            THEN rpc' = "returned" /\ ret' = [kind |-> "None", of |-> 0]
            ELSE rpc' = "sleeping" /\ ret' = ret
    /\ UNCHANGED <<retries, delay, failing, attempt, slept, waited>>

\* time.sleep(delay) returns and the loop takes its next i.
Sleep ==
    /\ rpc = "sleeping"
    /\ slept' = slept + 1
    /\ waited' = waited + delay
    /\ attempt' = attempt + 1
    /\ rpc' = "calling"
    /\ UNCHANGED <<retries, delay, failing, invoked, ret>>

RetryInit ==
    /\ retries \in 0..MaxRetries
    /\ delay \in 0..MaxDelay
    /\ failing \in SUBSET (1..MaxRetries)
    /\ rpc = "decorate"
    /\ attempt = 0
    /\ invoked = 0
    /\ slept = 0
    /\ waited = 0
    /\ ret = NoReturn

\* No function is being decorated.
RetryIdle ==
    /\ RetryInit
    /\ retries = 1
    /\ delay = 1
    /\ failing = {}

\* ---------------------------------------------------------- specifications
InitLog == LogInit /\ RaceInit /\ ParIdle /\ RetryIdle

NextLog ==
    \/ \E o \in Objs, p \in OutputPaths :
          Dirname(p) = outdir /\ Construct(o, p) /\ UNCHANGED <<parVars, raceVars, retryVars>>
    \/ \E o \in Objs, idx \in Idxs : Update(o, idx) /\ UNCHANGED <<parVars, raceVars, retryVars>>
    \/ \E o \in Objs : SetZero(o) /\ UNCHANGED <<parVars, raceVars, retryVars>>

SpecLog == InitLog /\ [][NextLog]_vars

InitRace == LogIdle /\ RaceInit /\ ParIdle /\ RetryIdle

NextRace ==
    \/ \E o \in Actors, p \in OutputPaths :
          Dirname(p) = outdir /\ OpenRead(o, p) /\ UNCHANGED <<parVars, retryVars>>
    \/ \E o \in Actors : ReadLine(o) /\ UNCHANGED <<parVars, retryVars>>
    \/ \E o \in Actors, idx \in RaceIdxs : OpenUpdate(o, idx) /\ UNCHANGED <<parVars, retryVars>>
    \/ \E o \in Actors : OpenSetZero(o) /\ UNCHANGED <<parVars, retryVars>>
    \/ \E o \in Actors : WriteLine(o) /\ UNCHANGED <<parVars, retryVars>>
    \/ \E o \in Actors : CloseWrite(o) /\ UNCHANGED <<parVars, retryVars>>

SpecRace == InitRace /\ [][NextRace]_vars

InitPar == ParInit /\ LogIdle /\ RaceInit /\ RetryIdle

NextPar ==
    \/ Call /\ UNCHANGED <<logVars, raceVars, retryVars>>
    \/ \E i \in 1..Len(futures) : Start(i) /\ UNCHANGED <<logVars, raceVars, retryVars>>
    \/ \E i \in 1..Len(futures) : Finish(i) /\ UNCHANGED <<logVars, raceVars, retryVars>>
    \/ Collect /\ UNCHANGED <<logVars, raceVars, retryVars>>
    \/ Return /\ UNCHANGED <<logVars, raceVars, retryVars>>
    \/ Surface /\ UNCHANGED <<logVars, raceVars, retryVars>>

SpecPar == InitPar /\ [][NextPar]_vars

InitRetry == RetryInit /\ LogIdle /\ RaceInit /\ ParIdle

NextRetry ==
    \/ Decorate /\ UNCHANGED <<logVars, parVars, raceVars>>
    \/ CallWrapper /\ UNCHANGED <<logVars, parVars, raceVars>>
    \/ Attempt /\ UNCHANGED <<logVars, parVars, raceVars>>
    \/ Sleep /\ UNCHANGED <<logVars, parVars, raceVars>>

SpecRetry == InitRetry /\ [][NextRetry]_vars

\* ------------------------------------------------------ properties of Log
\* Object o was built for the output path of the most recent write.
SamePath(o) ==
    /\ Constructed(o)
    /\ log_path[o] = lastWrite.log_path
    /\ Target(o) = lastWrite.filename

\* C1: round trip.  When the most recent write was update(v) on a Log for
\* path P, every Log constructed for P since then has last_idx = v.
RoundTrip ==
    lastWrite.kind = "update" =>
        \A o \in Objs :
            (since[o] = "fresh" /\ SamePath(o)) => last_idx[o] = lastWrite.idx

RoundTripWitness ==
    /\ lastWrite.kind = "update"
    /\ lastWrite.idx = 110
    /\ \E o \in Objs : since[o] = "fresh" /\ SamePath(o) /\ last_idx[o] = 110

\* The idx a construction for basename would read from lines, -1 if none.
PersistedIdx(lines, basename) ==
    ReadLoop(lines, basename, [last_idx |-> -1, logs |-> <<>>]).last_idx

\* C2: filename isolation.  A call of update or set_zero on the Log of one
\* filename leaves the persisted entry of every other filename as it was.
FilenameIsolation ==
    [][\A o \in Objs :
          ((\E idx \in Idxs : Update(o, idx)) \/ SetZero(o)) =>
              \A b \in Basenames \ {Target(o)} :
                  PersistedIdx(content'[log_path[o]], b)
                      = PersistedIdx(content[log_path[o]], b)]_vars

\* C3: reset.  When the most recent write was set_zero() on a Log for path
\* P, that object and every Log constructed for P since have last_idx = 0.
Reset ==
    lastWrite.kind = "set_zero" =>
        \A o \in Objs :
            (since[o] \in {"writer", "fresh"} /\ SamePath(o)) => last_idx[o] = 0

\* A Log for P reconstructed after set_zero() reads 0 while an older object
\* for P still holds the non-zero index that was persisted before.
ResetWitness ==
    /\ lastWrite.kind = "set_zero"
    /\ \E o \in Objs : since[o] = "fresh" /\ SamePath(o) /\ last_idx[o] = 0
    /\ \E o \in Objs : since[o] = "none" /\ SamePath(o) /\ last_idx[o] > 0

\* C4: fresh construction.  A Log whose sidecar does not exist has
\* last_idx = 0 and holds its own entry only, and every sidecar that exists
\* was opened by an update or set_zero call.
FreshConstruction ==
    /\ \A o \in Objs :
          (Constructed(o) /\ log_path[o] \notin exists) =>
              (last_idx[o] = 0 /\ Len(logs[o]) = 1)
    /\ exists \subseteq touched

FreshConstructionWitness ==
    /\ exists = {}
    /\ \A o \in Objs : Constructed(o) /\ last_idx[o] = 0
    /\ \E o1, o2 \in Objs : Target(o1) # Target(o2)

Unique(entries) ==
    \A i, j \in 1..Len(entries) :
        entries[i].filename = entries[j].filename => i = j

\* C10: uniqueness.  Every sidecar file and every object's entry sequence
\* holds at most one entry per filename.
UniqueFilenames ==
    /\ \A p \in LogPaths : Unique(content[p])
    /\ \A o \in Objs : Unique(logs[o])

\* A Log reconstructed for a filename the sidecar already has an entry for,
\* next to the entry of another filename.
UniqueFilenamesWitness ==
    /\ lastWrite.kind # "none"
    /\ Len(content[lastWrite.log_path]) = 2
    /\ \E o \in Objs : since[o] = "fresh" /\ SamePath(o) /\ Len(logs[o]) = 2

\* The entries of a sequence other than its last one.
Front(entries) == SubSeq(entries, 1, Len(entries) - 1)

\* The entries of the lines whose filename is not basename, in file order.
OtherEntries(lines, basename) ==
    SelectSeq([k \in 1..Len(lines) |-> Loads(lines[k])],
              LAMBDA js : js.filename # basename)

\* C11: tail invariant.  Right after update or set_zero on a Log, the last
\* line of its sidecar is the entry of its filename with the object's
\* last_idx, and the lines before it are the entries of the other filenames
\* that the object read at construction, in order and with their idx.  The
\* entries read at construction are the front of logs: a construction puts
\* there the other filenames' entries of the sidecar, and no later call on
\* the object changes them.
TailInvariant ==
    [][\A o \in Objs :
          /\ ((\E idx \in Idxs : Update(o, idx)) \/ SetZero(o)) =>
                LET c == content'[log_path[o]]
                IN /\ Len(c) = Len(logs[o])
                   /\ Loads(c[Len(c)]) = [filename |-> Target(o), idx |-> last_idx'[o]]
                   /\ \A k \in 1..(Len(c) - 1) : Loads(c[k]) = logs[o][k]
          /\ \A p \in OutputPaths :
                Construct(o, p) =>
                    Front(logs'[o]) =
                        OtherEntries(IF log_path'[o] \in exists
                                     THEN content[log_path'[o]] ELSE <<>>,
                                     Basename(p))
          /\ (Constructed(o) /\ ~ \E p \in OutputPaths : Construct(o, p)) =>
                Front(logs'[o]) = Front(logs[o])]_vars

\* A rewrite by a Log that read another filename's entry at construction.
TailInvariantWitness ==
    \E o \in Objs :
        /\ since[o] = "writer"
        /\ Len(content[log_path[o]]) = 2
        /\ last_idx[o] > 0
        /\ logs[o][1].idx > 0

\* How many entries of a sequence carry the filename.
Count(entries, filename) ==
    Cardinality({k \in 1..Len(entries) : entries[k].filename = filename})

\* The sidecar of output path p already holds an entry for p's basename.
HasEntry(p) ==
    /\ Join(Dirname(p), "idx.log") \in exists
    /\ PersistedIdx(content[Join(Dirname(p), "idx.log")], Basename(p)) >= 0

\* C12 as claimed: a construction against a sidecar that holds an entry for
\* its filename keeps that older entry next to the fresh tail entry.
StaleDuplicateRetained ==
    [][\A o \in Objs, p \in OutputPaths :
          (HasEntry(p) /\ Construct(o, p)) => Count(logs'[o], Basename(p)) = 2]_vars

\* C12 as amended: such a construction drops the older entry, its tail entry
\* carries the idx read from it, and a rewrite by a Log leaves exactly one
\* entry for its filename in the sidecar.
StaleEntryDropped ==
    [][\A o \in Objs :
          /\ \A p \in OutputPaths :
                (HasEntry(p) /\ Construct(o, p)) =>
                    /\ Count(logs'[o], Basename(p)) = 1
                    /\ logs'[o][Len(logs'[o])].idx =
                           PersistedIdx(content[log_path'[o]], Basename(p))
          /\ ((\E idx \in Idxs : Update(o, idx)) \/ SetZero(o)) =>
                Count(content'[log_path[o]], Target(o)) = 1]_vars

\* A Log constructed for a filename whose entry the sidecar held, next to
\* another filename's entry.
StaleEntryDroppedWitness ==
    \E o \in Objs :
        /\ since[o] = "fresh"
        /\ SamePath(o)
        /\ last_idx[o] = 55
        /\ Len(logs[o]) = 2
        /\ Len(content[log_path[o]]) = 2

\* C13: set_zero() is update(0).  A step is the one set_zero() takes on an
\* object exactly when it is the one update(0) takes on it: both leave the
\* same last_idx, the same entries and the same sidecar.
SetZeroIsUpdateZero ==
    [][\A o \in Objs :
          Constructed(o) => (SetZeroBody(o) <=> UpdateBody(o, 0))]_vars

\* set_zero() on a Log that holds two entries while an older object for the
\* same path still holds the non-zero index persisted before.
SetZeroIsUpdateZeroWitness ==
    /\ lastWrite.kind = "set_zero"
    /\ \E o \in Objs : since[o] = "writer" /\ Len(logs[o]) = 2
    /\ \E o \in Objs : since[o] = "none" /\ SamePath(o) /\ last_idx[o] > 0

\* -------------------------------------------- properties of the interleaving
\* C14: no access control.  Nothing keeps a construction from reading the
\* sidecar while another object rewrites it (the witness below is such a
\* run, with its lost entries); and it is only then that a construction
\* ends with anything but what the sidecar holds: a construction that no
\* rewrite overlapped ends with the last_idx and the entries that reading
\* the sidecar in one piece gives.
LossOnlyByOverlap ==
    [][\A o \in Actors :
          (rd[o] # "" /\ rd'[o] = "" /\ logs'[o] # <<>> /\ overlap'[o] = "no") =>
              LET st == ReadLoop(content[log_path[o]], rd[o],
                                 [last_idx |-> 0, logs |-> <<>>])
              IN /\ last_idx'[o] = st.last_idx
                 /\ logs'[o] = Append(st.logs, [filename |-> rd[o], idx |-> st.last_idx])]_vars

\* Object r was constructed during a rewrite of the sidecar and observed
\* last_idx = 0, although the rewriting object had read a non-zero idx for
\* r's filename from the sidecar before; r has since updated its idx, and the
\* sidecar it rewrote holds its entry alone: the entry of w's filename, for
\* which w holds a non-zero idx, is gone.
LossOnlyByOverlapWitness ==
    \E r, w \in Actors :
        /\ r # w
        /\ Idle(r) /\ Idle(w)
        /\ overlap[r] = "zero"
        /\ last_idx[r] > 0
        /\ content[log_path[r]] = <<Dumps(logs[r][1])>>
        /\ logs[w] # <<>>
        /\ log_path[w] = log_path[r]
        /\ Target(w) # Target(r)
        /\ last_idx[w] > 0
        /\ PersistedIdx(content[log_path[r]], Target(w)) = -1

\* ------------------------------------------ properties of run_in_parallel
ListArgs == {k \in 1..Len(args) : args[k].islist}
ArityMismatch == Len(args) # co_argcount
LengthMismatch ==
    \E j, k \in ListArgs : Len(args[j].items) # Len(args[k].items)

\* The common length of the list arguments of a valid call.
CommonLen == Len(args[CHOOSE k \in ListArgs : TRUE].items)

\* func applied at index i, a non-list argument taken as it is.
Pointwise(i) ==
    F([k \in 1..Len(args) |->
          IF args[k].islist THEN args[k].items[i] ELSE args[k].items[1]])

\* C5: order preservation.  A call whose arguments are all lists of length
\* L returns L results, the i-th being func of the i-th items, whatever the
\* order in which the invocations completed.
OrderPreservation ==
    (pc = "returned" /\ ListArgs = 1..Len(args)) =>
        /\ Len(results) = CommonLen
        /\ \A i \in 1..CommonLen : results[i] = Pointwise(i)

\* The second invocation completed before the first one.
OrderPreservationWitness ==
    /\ pc = "returned"
    /\ Len(args) = 2
    /\ ListArgs = 1..Len(args)
    /\ finished = <<2, 1>>
    /\ results[1] # results[2]

\* C6: fail-fast validation.  A call with an argument count other than
\* func's parameter count, or with two lists of different lengths, ends in
\* a ValueError with no future submitted and func never invoked.
FailFast ==
    (pc # "call" /\ (ArityMismatch \/ LengthMismatch)) =>
        /\ pc = "raised"
        /\ error = "ValueError"
        /\ futures = <<>>
        /\ calls = 0

FailFastWitness ==
    /\ pc = "raised"
    /\ error = "ValueError"
    /\ ~ArityMismatch
    /\ LengthMismatch

\* C7: broadcast.  A call with a non-list argument s next to lists of
\* length L returns what the call with s replaced by L copies of s returns:
\* L results, the i-th being func of the i-th items and s.
Broadcast ==
    (pc = "returned" /\ ListArgs # {} /\ ListArgs # 1..Len(args)) =>
        /\ Len(results) = CommonLen
        /\ \A i \in 1..CommonLen : results[i] = Pointwise(i)

BroadcastWitness ==
    /\ pc = "returned"
    /\ ListArgs # {}
    /\ ListArgs # 1..Len(args)
    /\ Len(results) >= 2
    /\ results[1] # results[2]

\* C8: failure propagation.  Once the call has ended, if an invocation has
\* raised then the call has raised too, with the exception of an invocation
\* that raised, after every invocation that was started has completed; it
\* has not returned a list.
FailurePropagation ==
    (pc \in {"returned", "raised"} /\ \E i \in 1..Len(futures) : futures[i] = "failed") =>
        /\ pc = "raised"
        /\ error = "Exception"
        /\ futures[Len(results) + 1] = "failed"
        /\ \A j \in 1..Len(futures) : futures[j] \notin {"pending", "running"}

\* A sibling that was running when the failure reached the caller ran to
\* completion, successfully, before the call raised.
FailurePropagationWitness ==
    /\ pc = "raised"
    /\ error = "Exception"
    /\ \E j \in late : futures[j] = "done"

\* C9: zero sequence arguments.  A call whose argument count matches and
\* whose arguments are all non-lists never returns: it ends in an
\* IndexError with func never invoked.
ZeroSequence ==
    (pc # "call" /\ ~ArityMismatch /\ ListArgs = {}) =>
        /\ pc \in {"exiting", "raised"}
        /\ error = "IndexError"
        /\ futures = <<>>
        /\ calls = 0

\* The zero-parameter case.
ZeroSequenceWitness ==
    /\ pc = "raised"
    /\ error = "IndexError"
    /\ co_argcount = 0
    /\ args = <<>>

\* ------------------------------------------------------ properties of retry
\* C15: retry bounds the attempts.  func is invoked at most retries times,
\* one attempt after the other; the wrapper returns the result of the first
\* attempt that does not raise; it has slept once after every failed attempt
\* but the last of the retries; when every attempt raised it returns None,
\* after exactly retries attempts, and raises nothing.
RetryBounded ==
    /\ rpc \in {"decorate", "invalid", "ready", "calling", "sleeping", "returned"}
    /\ rpc \in {"decorate", "invalid", "ready"} => invoked = 0
    /\ rpc \in {"calling", "sleeping", "returned"} =>
          /\ invoked <= retries
          /\ slept <= retries - 1
          /\ waited = slept * delay
          /\ \A k \in 1..(invoked - 1) : k \in failing
    /\ rpc = "calling" => (slept = invoked /\ attempt = invoked + 1)
    /\ rpc = "sleeping" => (slept = invoked - 1 /\ invoked \in failing)
    /\ rpc = "returned" =>
          /\ slept = invoked - 1
          /\ \/ ret = [kind |-> "result", of |-> invoked] /\ invoked \notin failing
             \/ ret = [kind |-> "None", of |-> 0] /\ invoked = retries
                                                  /\ invoked \in failing

\* Every one of three attempts raised.
RetryBoundedWitness ==
    /\ rpc = "returned"
    /\ ret.kind = "None"
    /\ retries = 3
    /\ invoked = 3
    /\ slept = 2

====
